---- MODULE Spec2Model ----
(***************************************************************************)
(* Model of the infohash package: HashStruct / CompareHashStruct           *)
(* (infohash.go) and the Hamming-style parity code (calculateHammingCode,  *)
(* findErrorLocation, log2OfXPlusOne).                                     *)
(*                                                                         *)
(* Numbers: TLC integers are 32-bit signed, so a Go uint32 is a pair of    *)
(* 16-bit limbs <<lo, hi>> and a uint64 is four limbs, least significant   *)
(* first.  A Go string / []byte is a sequence of byte values 0..255.       *)
(***************************************************************************)
EXTENDS Integers, Sequences, FiniteSets, TLC

\* ------------------------------------------------------------------ bounds
\* Largest number of fields of a record handed to HashStruct.
MaxFields == 3
\* Largest length of a field-checksum vector handed to calculateHammingCode.
MaxVec == 3
\* Largest number of entries of the fieldInfo list handed to hashInfo.
MaxInfos == 6
\* Largest number of fields of the malformed records.
MaxShapeFields == 2

\* ------------------------------------------------------- machine arithmetic
\* The XOR of the bits of weight p (a power of two) of a and b.
XorBit(a, b, p) == ((a \div p) + (b \div p)) % 2

\* Bitwise XOR of two bytes.
Xor8(a, b) ==
    XorBit(a, b, 1) + 2 * XorBit(a, b, 2) + 4 * XorBit(a, b, 4)
    + 8 * XorBit(a, b, 8) + 16 * XorBit(a, b, 16) + 32 * XorBit(a, b, 32)
    + 64 * XorBit(a, b, 64) + 128 * XorBit(a, b, 128)

\* Bitwise XOR of two 16-bit limbs.
Xor16(a, b) == Xor8(a % 256, b % 256) + 256 * Xor8(a \div 256, b \div 256)

\* Go's ^ on two uint32 values.
Xor32(a, b) == <<Xor16(a[1], b[1]), Xor16(a[2], b[2])>>

RECURSIVE Pow2(_)
Pow2(n) == IF n = 0 THEN 1 ELSE 2 * Pow2(n - 1)

\* (x & (1 << i)) != 0 for a non-negative int x.
BitSet(x, i) == (x \div Pow2(i)) % 2 = 1

Zero32 == <<0, 0>>

\* TRUE for all values.  TLC suspends the arguments of an operator until they
\* are used; IF Evaluated(a, b) THEN e ELSE .. makes it compute a and b before e,
\* in the order the code computes them, and never changes a result.
Evaluated(a, b) == a = a /\ b = b

\* ------------------------------------------------------------ hash/fnv
\* fnv.New32a(): offset basis 0x811c9dc5.
New32a == <<40389, 33052>>

\* fnv.New64a(): offset basis 0xcbf29ce484222325.
New64a == <<8997, 33826, 40164, 52210>>

\* One byte written to a 32-bit FNV-1a state: h = (h ^ c) * 0x01000193 mod 2^32.
\* 0x01000193 = 2^24 + 403.
\* t0 and t1 are the two limb products before the carry is passed on.
Carry32(t0, t1) == <<t0 % 65536, (t1 + (t0 \div 65536)) % 65536>>

Mul32(x0, h2) == Carry32(x0 * 403, h2 * 403 + (x0 % 256) * 256)

Step32(h, c) == Mul32(Xor16(h[1], c), h[2])

\* One byte written to a 64-bit FNV-1a state: h = (h ^ c) * 0x100000001b3 mod 2^64.
\* 0x100000001b3 = 2^40 + 435.
\* The limbs of the product, lowest first, each passing its carry on: n0, n1 are
\* finished limbs, t0, t1, t2 the limb sums that still hold a carry.
Carry64c(n0, n1, t2, x0, h) ==
    <<n0, n1, t2 % 65536,
      (h[4] * 435 + (t2 \div 65536) + (x0 \div 256) + (h[2] % 256) * 256) % 65536>>

Carry64b(n0, t1, x0, h) ==
    Carry64c(n0, t1 % 65536, h[3] * 435 + (t1 \div 65536) + (x0 % 256) * 256, x0, h)

Carry64a(t0, x0, h) == Carry64b(t0 % 65536, h[2] * 435 + (t0 \div 65536), x0, h)

Mul64(x0, h) == Carry64a(x0 * 435, x0, h)

Step64(h, c) == Mul64(Xor16(h[1], c), h)

RECURSIVE Write32(_, _, _)
RECURSIVE Written32(_, _, _)
\* fieldHash.Write(bytes[from..]).
Write32(h, bytes, from) ==
    IF from > Len(bytes) THEN h
    ELSE Written32(Step32(h, bytes[from]), bytes, from)

Written32(h1, bytes, from) ==
    IF Evaluated(h1, h1) THEN Write32(h1, bytes, from + 1) ELSE h1

RECURSIVE Write64(_, _, _)
RECURSIVE Written64(_, _, _)
\* fullHash.Write(bytes[from..]).
Write64(h, bytes, from) ==
    IF from > Len(bytes) THEN h
    ELSE Written64(Step64(h, bytes[from]), bytes, from)

Written64(h1, bytes, from) ==
    IF Evaluated(h1, h1) THEN Write64(h1, bytes, from + 1) ELSE h1

\* ---------------------------------------------------------- byte codec
uint64ToSlice(i) ==
    <<i[1] % 256, i[1] \div 256, i[2] % 256, i[2] \div 256,
      i[3] % 256, i[3] \div 256, i[4] % 256, i[4] \div 256>>

\* A variant that reads the eight bytes most significant first.
uint64FromSliceBigEndian(s) ==
    <<s[8] + 256 * s[7], s[6] + 256 * s[5], s[4] + 256 * s[3], s[2] + 256 * s[1]>>

\* Reads s[0..7]; the caller slices existingHash[:8] first.
uint64FromSlice(s) ==
    <<s[1] + 256 * s[2], s[3] + 256 * s[4], s[5] + 256 * s[6], s[7] + 256 * s[8]>>

uint32SliceToByteSlice(i) ==
    [j \in 1..(4 * Len(i)) |->
        LET w == i[((j - 1) \div 4) + 1]
            b == (j - 1) % 4
        IN  IF b = 0 THEN w[1] % 256
            ELSE IF b = 1 THEN w[1] \div 256
            ELSE IF b = 2 THEN w[2] % 256
            ELSE w[2] \div 256]

\* out has len(s)/4 words; trailing bytes that do not fill a word are ignored.
uint32SliceFromByteSlice(s) ==
    [i \in 1..(Len(s) \div 4) |->
        <<s[4 * i - 3] + 256 * s[4 * i - 2], s[4 * i - 1] + 256 * s[4 * i]>>]

\* -------------------------------------------------------- Hamming code
RECURSIVE log2Loop(_, _)
log2Loop(x, r) == IF x > 0 THEN log2Loop(x \div 2, r + 1) ELSE r

\* A variant whose loop stops at 1: the number of halvings that leave x positive.
log2OfX(x) == IF x > 0 THEN log2Loop(x, 0) - 1 ELSE 0

log2OfXPlusOne(x) == log2Loop(x, 0)

RECURSIVE hammingLoopOverwrites(_, _, _)
\* A variant that assigns the field to the parity word instead of XORing it in.
hammingLoopOverwrites(sums, n, words) ==
    IF n >= Len(sums) THEN words
    ELSE hammingLoopOverwrites(sums, n + 1,
            [i \in 1..Len(words) |->
                IF BitSet(n + 1, i - 1) THEN sums[n + 1] ELSE words[i]])

RECURSIVE hammingLoop(_, _, _)
\* The loop over fields: id is the 0-based index of the next field.
hammingLoop(flds, id, codes) ==
    IF id >= Len(flds) THEN codes
    ELSE LET codes1 == [i \in 1..Len(codes) |->
                           IF BitSet(id + 1, i - 1)
                           THEN Xor32(codes[i], flds[id + 1])
                           ELSE codes[i]]
         IN  IF Evaluated(codes1, flds) THEN hammingLoop(flds, id + 1, codes1)
             ELSE codes

RECURSIVE hammingLoopZeroBased(_, _, _)
hammingLoopZeroBased(sums, n, words) ==
    IF n >= Len(sums) THEN words
    ELSE hammingLoopZeroBased(sums, n + 1,
            [i \in 1..Len(words) |->
                IF BitSet(n, i - 1) THEN Xor32(words[i], sums[n + 1]) ELSE words[i]])

\* A variant that tests the bits of id instead of id + 1.
calculateHammingCodeZeroBased(sums) ==
    hammingLoopZeroBased(sums, 0, [i \in 1..log2OfXPlusOne(Len(sums)) |-> Zero32])

calculateHammingCode(fields) ==
    hammingLoop(fields, 0, [i \in 1..log2OfXPlusOne(Len(fields)) |-> Zero32])

RECURSIVE locationLoop(_, _, _, _)
\* The loop over hammingCode: i is the 0-based index; -1 stands for the
\* index-out-of-range panic of expectedCode[i].  1 << i is 0 in uint32 for i >= 32.
locationLoop(code, expected, i, loc) ==
    IF i >= Len(code) THEN loc
    ELSE IF i >= Len(expected) THEN -1
    ELSE locationLoop(code, expected, i + 1,
            IF code[i + 1] # expected[i + 1] /\ i < 31 /\ ~BitSet(loc, i)
            THEN loc + Pow2(i)
            ELSE loc)

\* A variant that returns the 1-based errorLocation as the index.
findErrorLocationOneBased(checksums, storedCode) ==
    LET expectedCode == calculateHammingCode(checksums)
        errorLocation == locationLoop(storedCode, expectedCode, 0, 0)
    IN  IF errorLocation = -1
        THEN [panic |-> TRUE, found |-> FALSE, location |-> 0,
              expectedCode |-> expectedCode]
        ELSE IF errorLocation = 0 \/ errorLocation > Len(checksums)
        THEN [panic |-> FALSE, found |-> FALSE, location |-> 0,
              expectedCode |-> expectedCode]
        ELSE [panic |-> FALSE, found |-> TRUE, location |-> errorLocation,
              expectedCode |-> expectedCode]

\* newFields is the parameter the source calls fields.
findErrorLocation(newFields, hammingCode) ==
    LET expectedCode == calculateHammingCode(newFields)
        errorLocation == locationLoop(hammingCode, expectedCode, 0, 0)
    IN  IF errorLocation = -1
        THEN [panic |-> TRUE, found |-> FALSE, location |-> 0,
              expectedCode |-> expectedCode]
        ELSE IF errorLocation = 0 \/ errorLocation > Len(newFields)
        THEN [panic |-> FALSE, found |-> FALSE, location |-> 0,
              expectedCode |-> expectedCode]
        ELSE [panic |-> FALSE, found |-> TRUE, location |-> errorLocation - 1,
              expectedCode |-> expectedCode]

\* ------------------------------------------------------------- strings
f1 == <<102, 49>>            \* "f1"
f10 == <<102, 49, 48>>       \* "f10"
f2 == <<102, 50>>            \* "f2"
f3 == <<102, 51>>            \* "f3"

\* The infohash tags the records of the model use.
Names == {f1, f10, f2, f3}

RECURSIVE StrLessFrom(_, _, _)
StrLessFrom(a, b, i) ==
    IF i > Len(a) THEN i <= Len(b)
    ELSE IF i > Len(b) THEN FALSE
    ELSE IF a[i] # b[i] THEN a[i] < b[i]
    ELSE StrLessFrom(a, b, i + 1)

\* Go's < on strings: bytewise lexicographic.
StrLess(a, b) == StrLessFrom(a, b, 1)

RECURSIVE Decimal(_)
\* The decimal digits of a non-negative int, as bytes.
Decimal(v) ==
    IF v < 10 THEN <<48 + v>> ELSE Append(Decimal(v \div 10), 48 + (v % 10))

\* A field value: [typ |-> "int", int |-> n, str |-> <<>>] or
\* [typ |-> "string", int |-> 0, str |-> bytes].
IntValue(n) == [typ |-> "int", int |-> n, str |-> <<>>]
StringValue(s) == [typ |-> "string", int |-> 0, str |-> s]

\* prettyPrintConfigForHash.Fprintf(w, "%#v", &field): the pointer's type in
\* parentheses, then the pointed-to value: "(*int)123", "(*string)test1".
Serialize(value) ==
    IF value.typ = "int"
    THEN <<40, 42, 105, 110, 116, 41>> \o Decimal(value.int)
    ELSE <<40, 42, 115, 116, 114, 105, 110, 103, 41>> \o value.str

\* ------------------------------------------------------------- results
NoBytes == <<>>
NoResult == [kind |-> "none", msg |-> "", Field |-> NoBytes]
Nil == [kind |-> "nil", msg |-> "", Field |-> NoBytes]
Errorf(msg, arg) == [kind |-> "error", msg |-> msg, Field |-> arg]
FieldChangedError(Field) == [kind |-> "FieldChangedError", msg |-> "", Field |-> Field]
Panic(msg) == [kind |-> "panic", msg |-> msg, Field |-> NoBytes]
\* The local variables of a call: fieldInfos, fullHash, fieldHashes.
NoLocals == [fieldInfos |-> <<>>, fullHash |-> <<0, 0, 0, 0>>, fieldHashes |-> <<>>]
Locals(fi, h) ==
    [fieldInfos |-> fi, fullHash |-> h.fullHash, fieldHashes |-> h.fieldHashes]

\* ------------------------------------------------------- getFieldInfos
RECURSIVE insertSorted(_, _)
insertSorted(sorted, info) ==
    IF sorted = <<>> THEN <<info>>
    ELSE IF StrLess(info.name, Head(sorted).name) THEN <<info>> \o sorted
    ELSE <<Head(sorted)>> \o insertSorted(Tail(sorted), info)

\* A variant that leaves the entries in declaration order.
declarationOrder(entries) == entries

RECURSIVE sortSlice(_)
\* sort.Slice(fieldInfos, less by name).
sortSlice(fieldInfos) ==
    IF fieldInfos = <<>> THEN <<>>
    ELSE insertSorted(sortSlice(Tail(fieldInfos)), Head(fieldInfos))

RECURSIVE fieldLoop(_, _, _, _)
\* The loop over the struct's fields in declaration order; i is 1-based.
fieldLoop(t, i, tags, acc) ==
    IF i > Len(t) THEN [err |-> Nil, fieldInfos |-> sortSlice(acc)]
    ELSE IF t[i].tag = NoBytes
    THEN [err |-> Errorf("the field has no tag infohash", t[i].goName),
          fieldInfos |-> <<>>]
    ELSE IF t[i].tag \in tags
    THEN [err |-> Errorf("the tag is used more than once", t[i].tag),
          fieldInfos |-> <<>>]
    ELSE IF ~t[i].exported
    THEN [err |-> Panic("reflect.Value.Interface: unexported field"),
          fieldInfos |-> <<>>]
    ELSE fieldLoop(t, i + 1, tags \cup {t[i].tag},
            Append(acc, [name |-> t[i].tag, fieldValue |-> t[i].value]))

getFieldInfos(obj) ==
    IF obj.kind = "struct"
    THEN [err |-> Errorf("the object must be a pointer", NoBytes), fieldInfos |-> <<>>]
    ELSE IF obj.kind # "ptr_to_struct"
    THEN [err |-> Errorf("the object must be a pointer to a struct", NoBytes),
          fieldInfos |-> <<>>]
    ELSE fieldLoop(obj.fields, 1, {}, <<>>)

\* ----------------------------------------------------------- getHashes
\* The bytes one field writes to multiWriter: the name, then the value.
fieldStream(info) == info.name \o Serialize(info.fieldValue)

RECURSIVE hashLoop(_, _, _, _)
RECURSIVE hashField(_, _, _, _, _)
RECURSIVE hashNext(_, _, _, _, _)
\* The loop over fieldInfos; fullHash runs on, fieldHash is reset per field.
\* Writes to an FNV hash never fail, so the error returns are never taken.
\* Evaluated(full1, sum32) only fixes the order of evaluation: the two digests
\* are computed field by field, as the loop does, instead of being left as one
\* suspended chain of byte steps as long as the whole record.
hashLoop(infos, i, full, hashes) ==
    IF i > Len(infos) THEN [fullHash |-> full, fieldHashes |-> hashes]
    ELSE hashField(infos, i, fieldStream(infos[i]), full, hashes)

\* One pass of the loop: stream goes to fullHash and to the reset fieldHash.
hashField(infos, i, stream, full, hashes) ==
    hashNext(infos, i, Write64(full, stream, 1), Write32(New32a, stream, 1), hashes)

hashNext(infos, i, full1, sum32, hashes) ==
    IF Evaluated(full1, sum32)
    THEN hashLoop(infos, i + 1, full1, Append(hashes, sum32))
    ELSE [fullHash |-> full1, fieldHashes |-> hashes]

getHashes(fieldInfos) == hashLoop(fieldInfos, 1, New64a, <<>>)

\* ------------------------------------------------------------ hashInfo
\* combinedHash: the full hash, then the parity words.
combineHash(full, hashes) ==
    uint64ToSlice(full) \o uint32SliceToByteSlice(calculateHammingCode(hashes))

hashInfo(fieldInfos) ==
    LET h == getHashes(fieldInfos)
    IN  IF Evaluated(h, fieldInfos)
        THEN [hash |-> combineHash(h.fullHash, h.fieldHashes),
              locals |-> Locals(fieldInfos, h)]
        ELSE [hash |-> NoBytes, locals |-> NoLocals]

HashStruct(obj) ==
    LET fi == getFieldInfos(obj)
    IN  IF fi.err # Nil
        THEN [err |-> fi.err, hash |-> NoBytes, locals |-> NoLocals]
        ELSE LET r == hashInfo(fi.fieldInfos)
             IN  [err |-> Nil, hash |-> r.hash, locals |-> r.locals]

\* --------------------------------------------------- CompareHashStruct
compareHashes(infos, hs, existing) ==
    IF uint64FromSlice(SubSeq(existing, 1, 8)) = hs.fullHash THEN Nil
    ELSE LET existingHammingCode ==
                 uint32SliceFromByteSlice(SubSeq(existing, 9, Len(existing)))
             r == findErrorLocation(hs.fieldHashes, existingHammingCode)
         IN  IF r.panic THEN Panic("index out of range")
             ELSE IF ~r.found THEN FieldChangedError(NoBytes)
             ELSE IF r.location >= Len(infos) THEN Panic("index out of range")
             ELSE FieldChangedError(infos[r.location + 1].name)

\* The first half of CompareHashStruct, which does not read existingHash:
\* getFieldInfos, then getHashes.
compareLocals(fi) ==
    IF fi.err # Nil THEN [err |-> fi.err, locals |-> NoLocals]
    ELSE [err |-> Nil, locals |-> Locals(fi.fieldInfos, getHashes(fi.fieldInfos))]

\* The second half: the comparison with existingHash, which holds at least 8
\* bytes.  c is what the first half computed.
compareExisting(c, existing) ==
    IF c.err # Nil THEN c
    ELSE [err |-> compareHashes(c.locals.fieldInfos, c.locals, existing),
          locals |-> c.locals]

CompareHashStruct(obj, existingHash) ==
    compareExisting(compareLocals(getFieldInfos(obj)), existingHash)

\* =================================================================
\* The records handed to the package.
\* =================================================================
\* A struct field: its Go name, its infohash tag (NoBytes: none or empty),
\* whether it is exported, and its value.
StructField(i, tag, exported, value) ==
    [goName |-> <<70, 48 + i>>, tag |-> tag, exported |-> exported, value |-> value]

\* The int values a field takes.  "f1(*int)727" and "f1(*int)554480" have the
\* same 32-bit FNV-1a sum; no other name gives two of these values the same sum.
Values == {727, 554480, 5}

\* The value every field of a record has before its first change.
Bases == {727, 5}

\* The declaration orders of n distinct tags.
DeclOrders(n) ==
    {o \in [1..n -> Names] : \A i, j \in 1..n : i # j => o[i] # o[j]}

\* Pointers to structs whose fields are exported and carry distinct tags.
ValidObjects ==
    {[kind |-> "ptr_to_struct",
      fields |-> [i \in 1..Len(o) |-> StructField(i, o[i], TRUE, IntValue(b))]] :
        o \in UNION {DeclOrders(n) : n \in 0..MaxFields}, b \in Bases}

\* Objects of every shape: a struct passed by value, a pointer to a pointer, and
\* pointers to structs with missing tags, repeated tags and unexported fields.
ShapesOf(n) ==
    {[kind |-> k,
      fields |-> [i \in 1..n |-> StructField(i, t[i], e[i], IntValue(727))]] :
        k \in {"struct", "ptr_to_ptr", "ptr_to_struct"},
        t \in [1..n -> {NoBytes, f1, f2}],
        e \in [1..n -> BOOLEAN]}

ShapeObjects == UNION {ShapesOf(n) : n \in 0..MaxShapeFields}

VARIABLES
    obj,            \* the object the caller holds
    original,       \* the object as it was when HashStruct was called (test1)
    hash,           \* the fingerprint HashStruct returned; NoBytes before
    hashed,         \* the local variables of that call
    hash2,          \* the fingerprint of a second HashStruct call; NoBytes: none
    existingHash,   \* the bytes handed to the last CompareHashStruct call
    compared,       \* the local variables of that call
    err,            \* what the last call returned
    fields,         \* the checksums handed to calculateHammingCode
    hammingCode,    \* the parity words it returned
    newFields,      \* the checksums handed to findErrorLocation
    located,        \* what findErrorLocation returned
    hammingStep,    \* "new", "calculated", "found": the calls made so far
    infos,          \* the fieldInfo list handed to hashInfo
    combinedHash,   \* what hashInfo returned
    pairs,          \* two fieldInfo entries
    streams         \* the bytes getHashes writes for each of them

structVars == <<obj, original, hash, hashed, hash2, existingHash, compared, err>>
hammingVars == <<fields, hammingCode, newFields, located, hammingStep>>
infoVars == <<infos, combinedHash>>
streamVars == <<pairs, streams>>
vars == <<structVars, hammingVars, infoVars, streamVars>>

NotLocated == [panic |-> FALSE, found |-> FALSE, location |-> 0, expectedCode |-> <<>>]

StructIdle ==
    /\ obj = [kind |-> "struct", fields |-> <<>>]
    /\ original = obj
    /\ hash = NoBytes /\ hashed = NoLocals /\ hash2 = NoBytes
    /\ existingHash = NoBytes /\ compared = NoLocals /\ err = NoResult
HammingIdle ==
    /\ fields = <<>> /\ hammingCode = <<>> /\ newFields = <<>>
    /\ located = NotLocated /\ hammingStep = "idle"
InfoIdle == infos = <<>> /\ combinedHash = NoBytes
StreamIdle == pairs = <<>> /\ streams = <<>>

\* =================================================================
\* Spec: a caller hashes a record, changes fields, compares.
\* =================================================================
Init ==
    /\ obj \in ValidObjects \cup ShapeObjects
    /\ original = obj
    /\ hash = NoBytes /\ hashed = NoLocals /\ hash2 = NoBytes
    /\ existingHash = NoBytes /\ compared = NoLocals /\ err = NoResult
    /\ HammingIdle /\ InfoIdle /\ StreamIdle

\* hash, err := HashStruct(&test1)
CallHashStruct ==
    /\ hash = NoBytes /\ err = NoResult
    /\ LET r == HashStruct(obj)
       IN  /\ hash' = r.hash
           /\ hashed' = r.locals
           /\ err' = r.err
    /\ original' = obj
    /\ UNCHANGED <<obj, hash2, existingHash, compared, hammingVars, infoVars, streamVars>>

\* test2.FieldN = v: the caller changes one field of the record.
SetField(i, v) ==
    /\ hash # NoBytes
    /\ obj.fields[i].value # IntValue(v)
    /\ obj' = [obj EXCEPT !.fields[i].value = IntValue(v)]
    /\ hash2' = NoBytes /\ existingHash' = NoBytes
    /\ compared' = NoLocals /\ err' = NoResult
    /\ UNCHANGED <<original, hash, hashed, hammingVars, infoVars, streamVars>>

\* The same fields declared in another order: the declaration rotated by one.
Redeclared(o) ==
    [o EXCEPT !.fields =
        [i \in 1..Len(o.fields) |-> o.fields[(i % Len(o.fields)) + 1]]]

\* A second HashStruct call, on a struct that declares the fields of obj in
\* another order.
CallHashStructAgain ==
    /\ hash # NoBytes /\ hash2 = NoBytes /\ existingHash = NoBytes
    /\ hash2' = HashStruct(Redeclared(obj)).hash
    /\ UNCHANGED <<obj, original, hash, hashed, existingHash, compared, err,
                   hammingVars, infoVars, streamVars>>

\* The byte sequences a caller hands to CompareHashStruct: the stored
\* fingerprint, the fingerprint with one more word, its first 8 bytes; eight
\* zero bytes when nothing is stored.
ExistingHashes ==
    IF hash = NoBytes THEN {<<0, 0, 0, 0, 0, 0, 0, 0>>}
    ELSE {hash, hash \o <<0, 0, 0, 0>>, SubSeq(hash, 1, 8)}

\* The calls CompareHashStruct(obj, existing), one per byte sequence of
\* ExistingHashes; c is compareLocals(getFieldInfos(obj)), the half of the call
\* they share, so that each is compareExisting(c, existing), that is
\* CompareHashStruct(obj, existing).
CompareCalls(c) ==
    \E existing \in ExistingHashes :
        /\ err' = compareExisting(c, existing).err
        /\ compared' = c.locals
        /\ existingHash' = existing

\* err := CompareHashStruct(&test2, existing)
CallCompareHashStruct ==
    /\ err \in {NoResult, Nil} /\ existingHash = NoBytes /\ hash2 = NoBytes
    /\ CompareCalls(compareLocals(getFieldInfos(obj)))
    /\ UNCHANGED <<obj, original, hash, hashed, hash2, hammingVars, infoVars, streamVars>>

Next ==
    \/ CallHashStruct
    \/ \E i \in 1..Len(obj.fields), v \in Values : SetField(i, v)
    \/ CallHashStructAgain
    \/ CallCompareHashStruct

Spec == Init /\ [][Next]_vars

\* -----------------------------------------------------------------
\* Properties of Spec.
\* -----------------------------------------------------------------
\* The last call was CompareHashStruct(obj, hash), hash being HashStruct(original).
ComparedWithOwnHash == hash # NoBytes /\ existingHash = hash

\* The last call was HashStruct(obj).
HashStructReturned == err # NoResult /\ existingHash = NoBytes

\* The declaration indices of the fields whose value differs from original's.
ChangedFields ==
    {i \in 1..Len(obj.fields) : obj.fields[i].value # original.fields[i].value}

\* The tags of a struct's fields.
TagsOf(o) == {o.fields[i].tag : i \in 1..Len(o.fields)}

\* The position of a tag in a fieldInfo list.
PositionOf(tag, list) == CHOOSE p \in 1..Len(list) : list[p].name = tag

\* The field's 32-bit checksum and the record's 64-bit checksum both differ
\* from those HashStruct(original) computed.
ChecksumsDiffer(i) ==
    /\ compared.fullHash # hashed.fullHash
    /\ compared.fieldHashes[PositionOf(obj.fields[i].tag, compared.fieldInfos)]
         # hashed.fieldHashes[PositionOf(obj.fields[i].tag, hashed.fieldInfos)]

\* The declaration is not in ascending tag order.
DeclaredUnsorted(o) ==
    \E i \in 1..(Len(o.fields) - 1) : StrLess(o.fields[i + 1].tag, o.fields[i].tag)

\* C1: comparing an unmodified record with its own fingerprint returns nil.
NoChangeRoundTrip ==
    (ComparedWithOwnHash /\ obj = original) => err = Nil

NoChangeRoundTripWitness ==
    ComparedWithOwnHash /\ obj = original /\ err = Nil /\ Len(obj.fields) >= 2

MultiFieldNonLocalization ==
    (ComparedWithOwnHash /\ Cardinality(ChangedFields) >= 2)
        => err = FieldChangedError(NoBytes)

\* C5: the fieldInfo list has one entry per field, in strictly ascending name
\* order whatever the declaration order; HashStruct and CompareHashStruct use
\* the same list, and a struct declaring the same fields in another order has
\* the same fingerprint.
CanonicalOrder ==
    /\ \A l \in {hashed, compared} :
           l # NoLocals =>
               /\ Len(l.fieldInfos) = Len(obj.fields)
               /\ {l.fieldInfos[p].name : p \in 1..Len(l.fieldInfos)} = TagsOf(obj)
               /\ \A p \in 1..(Len(l.fieldInfos) - 1) :
                      StrLess(l.fieldInfos[p].name, l.fieldInfos[p + 1].name)
    /\ (hashed # NoLocals /\ compared # NoLocals) =>
           \A p \in 1..Len(hashed.fieldInfos) :
               compared.fieldInfos[p].name = hashed.fieldInfos[p].name
    /\ (hash2 # NoBytes /\ obj = original) => hash2 = hash

CanonicalOrderWitness ==
    /\ hash2 # NoBytes /\ obj = original /\ hash2 = hash
    /\ Len(obj.fields) >= 3 /\ DeclaredUnsorted(obj) /\ DeclaredUnsorted(Redeclared(obj))

\* C6: on a record the extractor accepts and a stored byte sequence of 8 + 4k
\* bytes, CompareHashStruct returns nil or a FieldChangedError whose Field is
\* empty or one of the record's tags; it never aborts.
CompareIsTotal ==
    (/\ existingHash # NoBytes
     /\ getFieldInfos(obj).err = Nil
     /\ Len(existingHash) >= 8 /\ Len(existingHash) % 4 = 0)
        => \/ err = Nil
           \/ /\ err.kind = "FieldChangedError"
              /\ err.Field \in TagsOf(obj) \cup {NoBytes}

\* The structural contract of the doc comments: a pointer to a struct whose
\* fields all carry a non-empty tag, no tag twice.
Rejected(o) ==
    \/ o.kind # "ptr_to_struct"
    \/ \E i \in 1..Len(o.fields) : o.fields[i].tag = NoBytes
    \/ \E i, j \in 1..Len(o.fields) : i # j /\ o.fields[i].tag = o.fields[j].tag

\* C7: HashStruct and CompareHashStruct return the extractor's error, and no
\* fingerprint and no verdict, when the object is not a pointer to a struct or a
\* field has no tag or two fields have the same tag; on every other object the
\* extractor succeeds.
ShapeRejection ==
    /\ HashStructReturned =>
           IF Rejected(obj)
           THEN err.kind = "error" /\ hash = NoBytes /\ hashed = NoLocals
           ELSE err = Nil /\ Len(hashed.fieldInfos) = Len(obj.fields)
    /\ existingHash # NoBytes =>
           IF Rejected(obj)
           THEN err.kind = "error" /\ compared = NoLocals
           ELSE compared # NoLocals /\ Len(compared.fieldInfos) = Len(obj.fields)
\* =================================================================
\* SpecHamming: calculateHammingCode on a vector of field checksums,
\* then findErrorLocation on a second vector of the same length.
\* =================================================================
\* Three checksums, each the XOR of the other two.
Sums == {<<1, 32768>>, <<2, 32768>>, <<3, 0>>}

Vectors(n) == [1..n -> Sums]

InitHamming ==
    /\ StructIdle /\ InfoIdle /\ StreamIdle
    /\ fields \in UNION {Vectors(n) : n \in 0..MaxVec}
    /\ hammingCode = <<>> /\ newFields = <<>>
    /\ located = NotLocated /\ hammingStep = "new"

\* hammingCode := calculateHammingCode(fieldHashes)
CallCalculateHammingCode ==
    /\ hammingStep = "new"
    /\ hammingCode' = calculateHammingCode(fields)
    /\ hammingStep' = "calculated"
    /\ UNCHANGED <<fields, newFields, located, structVars, infoVars, streamVars>>

\* foundLocation, location := findErrorLocation(fieldHashes, existingHammingCode)
CallFindErrorLocation(sums) ==
    /\ hammingStep = "calculated"
    /\ newFields' = sums
    /\ located' = findErrorLocation(sums, hammingCode)
    /\ hammingStep' = "found"
    /\ UNCHANGED <<fields, hammingCode, structVars, infoVars, streamVars>>

NextHamming ==
    \/ CallCalculateHammingCode
    \/ \E sums \in Vectors(Len(fields)) : CallFindErrorLocation(sums)

SpecHamming == InitHamming /\ [][NextHamming]_vars

\* -----------------------------------------------------------------
\* Properties of SpecHamming.
\* -----------------------------------------------------------------
\* The positions where newFields differs from fields.
Differing == {pos \in 1..Len(fields) : newFields[pos] # fields[pos]}

\* The least p with 2^p >= m.
CeilLog2(m) ==
    CHOOSE p \in 0..31 : Pow2(p) >= m /\ \A q \in 0..(p - 1) : Pow2(q) < m

RECURSIVE XorOfPositions(_, _, _)
\* The XOR of the checksums at the positions 1..pos that have bit k set.
XorOfPositions(sums, k, pos) ==
    IF pos = 0 THEN Zero32
    ELSE IF BitSet(pos, k) THEN Xor32(sums[pos], XorOfPositions(sums, k, pos - 1))
    ELSE XorOfPositions(sums, k, pos - 1)

\* C9, as the claim states it: the parity words of newFields equal those of
\* fields word for word exactly when the two vectors are equal.
ZeroSyndromeIffNoChange ==
    hammingStep = "found" => (located.expectedCode = hammingCode <=> newFields = fields)

\* C9, amended: equal vectors have equal parity words and no error location,
\* and vectors that differ in one or two positions differ in a parity word.
ZeroSyndromeUpToTwoChanges ==
    hammingStep = "found" =>
        /\ newFields = fields => (located.expectedCode = hammingCode /\ ~located.found)
        /\ Cardinality(Differing) \in {1, 2} => located.expectedCode # hammingCode

ZeroSyndromeWitness ==
    /\ hammingStep = "found" /\ Len(fields) = 3
    /\ Differing = {1, 3} /\ newFields[1] = fields[3] /\ newFields[3] = fields[1]
    /\ located.expectedCode # hammingCode

\* C10: calculateHammingCode returns ceil(log2(n+1)) words, word k the XOR of
\* the checksums whose 1-based position has bit k set, and every position has a
\* bit set below the number of words.
ParityWordDefinition ==
    hammingStep \in {"calculated", "found"} =>
        /\ Len(hammingCode) = CeilLog2(Len(fields) + 1)
        /\ \A k \in 0..(Len(hammingCode) - 1) :
               hammingCode[k + 1] = XorOfPositions(fields, k, Len(fields))
        /\ \A pos \in 1..Len(fields) :
               \E k \in 0..(Len(hammingCode) - 1) : BitSet(pos, k)

ParityWordDefinitionWitness ==
    /\ hammingStep = "calculated" /\ Len(fields) = 3 /\ Len(hammingCode) = 2
    /\ fields[1] # fields[3]
    /\ hammingCode[1] = Xor32(fields[1], fields[3])
\* =================================================================
\* SpecLength: hashInfo on a list of n fieldInfo entries, as TestHashLength
\* calls it.
\* =================================================================
\* "Field"
FieldPrefix == <<70, 105, 101, 108, 100>>

\* makeInfos(length), each entry with one of two values.
InfoLists(length) ==
    {[i \in 1..length |-> [name |-> FieldPrefix \o Decimal(i - 1),
                           fieldValue |-> IntValue(v[i])]] :
        v \in [1..length -> {0, 1}]}

InitLength ==
    /\ StructIdle /\ HammingIdle /\ StreamIdle
    /\ infos \in UNION {InfoLists(n) : n \in 0..MaxInfos}
    /\ combinedHash = NoBytes

\* hash, err := hashInfo(makeInfos(i))
CallHashInfo ==
    /\ combinedHash = NoBytes
    /\ combinedHash' = hashInfo(infos).hash
    /\ UNCHANGED <<infos, structVars, hammingVars, streamVars>>

NextLength == CallHashInfo

SpecLength == InitLength /\ [][NextLength]_vars

\* C4: the fingerprint of n fields has 8 + 4 * ceil(log2(n+1)) bytes, and
\* log2OfXPlusOne(n) is ceil(log2(n+1)).
LengthLaw ==
    combinedHash # NoBytes =>
        /\ Len(combinedHash) = 8 + 4 * CeilLog2(Len(infos) + 1)
        /\ log2OfXPlusOne(Len(infos)) = CeilLog2(Len(infos) + 1)
        /\ Len(infos) = 0 => Len(combinedHash) = 8
        /\ Len(infos) = 1 => Len(combinedHash) = 12

LengthLawWitness ==
    Len(infos) = 4 /\ Len(combinedHash) = 20

\* =================================================================
\* SpecStream: the bytes getHashes writes for each of two fieldInfo entries.
\* =================================================================
\* "A", "AB", "A(*string)"
StreamNames == {<<65>>, <<65, 66>>, <<65, 40, 42, 115, 116, 114, 105, 110, 103, 41>>}

\* 5, "C", "BC", "(*int)5"
StreamValues ==
    {IntValue(5), StringValue(<<67>>), StringValue(<<66, 67>>),
     StringValue(<<40, 42, 105, 110, 116, 41, 53>>)}

StreamInfos ==
    {[name |-> n, fieldValue |-> v] : n \in StreamNames, v \in StreamValues}

InitStream ==
    /\ StructIdle /\ HammingIdle /\ InfoIdle
    /\ pairs \in [1..2 -> StreamInfos]
    /\ streams = <<>>

\* getHashes on each entry alone: the bytes written and the field checksum.
WriteStreams ==
    /\ streams = <<>>
    /\ streams' = [i \in 1..2 |->
                      [bytes |-> fieldStream(pairs[i]),
                       sum |-> getHashes(<<pairs[i]>>).fieldHashes[1]]]
    /\ UNCHANGED <<pairs, structVars, hammingVars, infoVars>>

NextStream == WriteStreams

SpecStream == InitStream /\ [][NextStream]_vars

\* The (identifier, serialized value) pair of an entry.
PairOf(info) == <<info.name, Serialize(info.fieldValue)>>

\* C8: two entries whose (identifier, serialized value) pairs differ write
\* different byte streams.
UnambiguousFieldEncoding ==
    (streams # <<>> /\ PairOf(pairs[1]) # PairOf(pairs[2]))
        => streams[1].bytes # streams[2].bytes
====
